---- MODULE Spec2Model ----
(***************************************************************************)
(* conv2docx: the command line driver of src/conv2docx/cli.py.             *)
(*                                                                         *)
(* A path is a sequence of segments <<dir, stem, ext1, ..., extn>>: the    *)
(* directory prefix ("" for the working directory), the stem of the file   *)
(* name, and the dot-led extensions that follow it.  "d/b.yml.json" is     *)
(* <<"d/", "b", ".yml", ".json">>.  Appending a suffix to a path string is *)
(* Append; None and the empty string are the empty sequence.               *)
(***************************************************************************)
EXTENDS Integers, Sequences, FiniteSets, TLC

VARIABLES
    argv,         \* sys.argv[1:]
    disk0,        \* the regular files present when the program starts
    disk,         \* the regular files present now
    keep_temp,    \* main: keep_temp
    input_files,  \* main: input_files
    i,            \* position of `file` in input_files (the for loop)
    pc,           \* position of the driver inside main()
    json_file,    \* main: json_file (None is <<>>)
    md_file,      \* main: md_file (None is <<>>)
    success,      \* main: success
    exit_code,    \* process exit status; -1 while running
    scanned,      \* os.listdir() has been called
    wrote,        \* history: [path, by] for every file opened for writing
    removed,      \* history: [path, by] for every os.remove that succeeded
    undeleted,    \* history: [path, by] for every os.remove that raised
    docx,         \* history: [by, out] for every call of pypandoc.convert_file
    cleaned,      \* history: loop positions whose step 4 has run
    reported,     \* history: loop positions whose failure message was printed
    faults,       \* number of failures the environment has injected so far
    skipped,      \* history: [by, at, why] for every `continue` of the loop
    data,         \* convert_yaml_to_json: the value yaml.safe_load returned
    artifact,     \* convert_yaml_to_json: the text json.dump wrote
    phase         \* convert_yaml_to_json: position inside the function

vars == <<argv, disk0, disk, keep_temp, input_files, i, pc, json_file, md_file,
          success, exit_code, scanned, wrote, removed, undeleted, docx, cleaned, reported,
          faults, skipped, data, artifact, phase>>

pipevars == <<argv, disk0, disk, keep_temp, input_files, i, pc, json_file,
              md_file, success, exit_code, scanned, wrote, removed, undeleted, docx,
              cleaned, reported, faults, skipped>>

yamlvars == <<data, artifact, phase>>

-----------------------------------------------------------------------------
(* Bounds *)

MaxArgs == 3

\* the failures (I/O errors, unparsable input, converter errors) injected in one run
MaxFaults == 2

-----------------------------------------------------------------------------
(* Paths *)

None == <<>>

KeepTempTok == <<"", "--keep-temp">>

FYaml == <<"", "a", ".YAML">>
FYamlJson == <<"", "a", ".YAML", ".json">>
FDirYml == <<"d/", "b", ".yml">>
FDirTxt == <<"d/", "c", ".txt">>
FText == <<"", "n", ".txt">>

\* what a command line argument may be
Tokens == {KeepTempTok, FYaml, FYamlJson, FDirYml, FDirTxt}

\* the files that may or may not be there when the program starts
Optional == {FYaml, FYamlJson}

\* the files that are there when the program starts
Present == {FDirYml, FDirTxt, FText}

\* str.lower() on one segment
Lower(s) ==
    CASE s = ".YAML" -> ".yaml"
      [] s = ".YML" -> ".yml"
      [] s = ".JSON" -> ".json"
      [] OTHER -> s

\* os.path.splitext(p)[1]: the text from the last dot of the file name on,
\* where the dots that lead the file name do not count
SplitExt(p) ==
    IF Len(p) >= 3 /\ ~(Len(p) = 3 /\ p[2] = "") THEN p[Len(p)] ELSE ""

\* os.path.splitext(p)[0]
SplitRoot(p) ==
    IF SplitExt(p) = "" THEN p ELSE SubSeq(p, 1, Len(p) - 1)

\* os.path.basename(p)
BaseName(p) == [p EXCEPT ![1] = ""]

\* a scan filter that accepts any extension
EndsWithDataExt_AnyExt(p) == Len(p) >= 3

\* f.lower().endswith(('.json', '.yaml', '.yml'))
EndsWithDataExt(p) ==
    /\ Len(p) >= 3
    /\ Lower(p[Len(p)]) \in {".json", ".yaml", ".yml"}

\* the orders in which os.listdir() may yield the set of names S
Listings(S) ==
    {s \in [1..Cardinality(S) -> S] : \A j, k \in 1..Cardinality(S) : s[j] = s[k] => j = k}

NotKeepTemp(f) == f # KeepTempTok

\* an argument filter that also drops the arguments without a data extension
GivenFiles_Filtered(args) == SelectSeq(SelectSeq(args, NotKeepTemp), EndsWithDataExt)

\* input_files = [f for f in args if f != '--keep-temp']
GivenFiles(args) == SelectSeq(args, NotKeepTemp)

SeqsUpTo(S, n) == UNION {[1..k -> S] : k \in 0..n}

-----------------------------------------------------------------------------
(* main() *)

\* json_file = f"{input_file}.json"
JsonPathOf(input_file) == Append(input_file, ".json")

\* md_file = input_file + ".md"
MdPathOf(input_file) == Append(input_file, ".md")

\* an output name that keeps the directory of the Markdown file
DocxPathOf_KeepDir(input_file) == Append(SplitRoot(input_file), ".docx")

\* base_name = splitext(basename(input_file))[0]; output_file = f"{base_name}.docx"
DocxPathOf(input_file) == Append(SplitRoot(BaseName(input_file)), ".docx")

file == input_files[i]

Init ==
    /\ argv \in SeqsUpTo(Tokens, MaxArgs)
    /\ disk0 \in {S \cup Present : S \in SUBSET Optional}
    /\ disk = disk0
    /\ keep_temp = FALSE
    /\ input_files = <<>>
    /\ i = 0
    /\ pc = "start"
    /\ json_file = None
    /\ md_file = None
    /\ success = FALSE
    /\ exit_code = -1
    /\ scanned = FALSE
    /\ wrote = {}
    /\ removed = {}
    /\ undeleted = {}
    /\ docx = {}
    /\ cleaned = {}
    /\ reported = {}
    /\ skipped = {}
    /\ faults = 0
    /\ data = <<>>
    /\ artifact = <<>>
    /\ phase = "idle"

\* the `for file in input_files` header: take the next file or leave the loop
NextFile(k) ==
    IF k < Len(input_files)
    THEN /\ i' = k + 1
         /\ pc' = "yaml_check"
         /\ exit_code' = exit_code
    ELSE /\ i' = k
         /\ pc' = "done"
         /\ exit_code' = 0

\* lines 101-113: the argument list, the directory scan, the empty-list exit
Discover ==
    /\ pc = "start"
    /\ keep_temp' = (\E k \in 1..Len(argv) : argv[k] = KeepTempTok)
    /\ LET given == GivenFiles(argv)
       IN IF given # <<>>
          THEN /\ input_files' = given
               /\ scanned' = FALSE
          ELSE /\ \E listing \in Listings({p \in disk : p[1] = ""}) :
                      input_files' = SelectSeq(listing, EndsWithDataExt)
               /\ scanned' = TRUE
    /\ IF input_files' = <<>>
       THEN /\ pc' = "exit"
            /\ exit_code' = 1
            /\ i' = 0
       ELSE /\ pc' = "yaml_check"
            /\ exit_code' = exit_code
            /\ i' = 1
    /\ UNCHANGED <<argv, disk0, disk, json_file, md_file, success, wrote,
                   removed, undeleted, docx, cleaned, reported, faults,
                   skipped, yamlvars>>

\* lines 116-122, 127-128: the extension test
YamlCheck ==
    /\ pc = "yaml_check"
    /\ md_file' = None
    /\ success' = FALSE
    /\ IF Lower(SplitExt(file)) \in {".yaml", ".yml"}
       THEN /\ json_file' = None
            /\ pc' = "yaml_convert"
       ELSE /\ json_file' = file
            /\ pc' = "md_prepare"
    /\ UNCHANGED <<argv, disk0, disk, keep_temp, input_files, i, exit_code,
                   scanned, wrote, removed, undeleted, docx, cleaned, reported,
                   faults, skipped, yamlvars>>

\* lines 123-126 with convert_yaml_to_json (8-31).  The outcome is "ok";
\* "missing" (the input cannot be opened because it is not there); "nofile"
\* (reading or parsing failed, or the JSON file could not be opened); or
\* "partial" (the JSON file was opened for writing and json.dump or the write
\* then raised).  Every failure is caught and the file is skipped.
YamlConvert ==
    /\ pc = "yaml_convert"
    /\ \E outcome \in {"ok", "missing", "nofile", "partial"} :
          /\ (outcome = "missing") <=> (file \notin disk)
          /\ outcome \in {"nofile", "partial"} => faults < MaxFaults
          /\ faults' = IF outcome \in {"nofile", "partial"} THEN faults + 1 ELSE faults
          /\ IF outcome \in {"ok", "partial"}
             THEN /\ disk' = disk \cup {JsonPathOf(file)}
                  /\ wrote' = wrote \cup {[path |-> JsonPathOf(file), by |-> i]}
             ELSE UNCHANGED <<disk, wrote>>
          /\ IF outcome = "ok"
             THEN /\ json_file' = JsonPathOf(file)
                  /\ pc' = "md_prepare"
                  /\ UNCHANGED <<i, exit_code, skipped>>
             ELSE /\ json_file' = None
                  /\ skipped' = skipped \cup
                        {[by |-> i, at |-> "yaml_convert", why |-> outcome]}
                  /\ NextFile(i)
    /\ UNCHANGED <<argv, disk0, keep_temp, input_files, md_file, success,
                   scanned, removed, undeleted, docx, cleaned, reported,
                   yamlvars>>

\* lines 131-134 with prepare_markdown_file (33-66).  The outcome is "ok";
\* "missing" (os.path.isfile is false); "nofile" (reading failed, or the .md
\* file could not be opened); or "partial" (the .md file was opened for
\* writing and the write then raised).
MdPrepare ==
    /\ pc = "md_prepare"
    /\ \E outcome \in {"ok", "missing", "nofile", "partial"} :
          /\ (outcome = "missing") <=> (json_file \notin disk)
          /\ outcome \in {"nofile", "partial"} => faults < MaxFaults
          /\ faults' = IF outcome \in {"nofile", "partial"} THEN faults + 1 ELSE faults
          /\ IF outcome \in {"ok", "partial"}
             THEN /\ disk' = disk \cup {MdPathOf(json_file)}
                  /\ wrote' = wrote \cup {[path |-> MdPathOf(json_file), by |-> i]}
             ELSE UNCHANGED <<disk, wrote>>
          /\ IF outcome = "ok"
             THEN /\ md_file' = MdPathOf(json_file)
                  /\ pc' = "docx_convert"
                  /\ UNCHANGED <<i, exit_code, skipped>>
             ELSE /\ md_file' = None
                  /\ skipped' = skipped \cup
                        {[by |-> i, at |-> "md_prepare", why |-> outcome]}
                  /\ NextFile(i)
    /\ UNCHANGED <<argv, disk0, keep_temp, input_files, json_file, success,
                   scanned, removed, undeleted, docx, cleaned, reported,
                   yamlvars>>

\* a driver that leaves the file as soon as the conversion has failed
DocxConvert_SkipCleanupOnFailure ==
    /\ pc = "docx_convert"
    /\ \E ok \in BOOLEAN :
          /\ ~ok => faults < MaxFaults
          /\ faults' = IF ok THEN faults ELSE faults + 1
          /\ success' = ok
          /\ IF ok
             THEN /\ disk' = disk \cup {DocxPathOf(md_file)}
                  /\ wrote' = wrote \cup {[path |-> DocxPathOf(md_file), by |-> i]}
             ELSE UNCHANGED <<disk, wrote>>
    /\ docx' = docx \cup {[by |-> i, out |-> DocxPathOf(md_file)]}
    /\ pc' = IF success' THEN "cleanup" ELSE "report"
    /\ UNCHANGED <<argv, disk0, keep_temp, input_files, i, json_file, md_file,
                   exit_code, scanned, removed, undeleted, cleaned, reported,
                   skipped, yamlvars>>

\* line 137 with convert_md_to_docx (69-86): pypandoc writes the output file,
\* or raises, which is caught and reported as False
DocxConvert ==
    /\ pc = "docx_convert"
    /\ \E ok \in BOOLEAN :
          /\ ~ok => faults < MaxFaults
          /\ faults' = IF ok THEN faults ELSE faults + 1
          /\ success' = ok
          /\ IF ok
             THEN /\ disk' = disk \cup {DocxPathOf(md_file)}
                  /\ wrote' = wrote \cup {[path |-> DocxPathOf(md_file), by |-> i]}
             ELSE UNCHANGED <<disk, wrote>>
    /\ docx' = docx \cup {[by |-> i, out |-> DocxPathOf(md_file)]}
    /\ pc' = "cleanup"
    /\ UNCHANGED <<argv, disk0, keep_temp, input_files, i, json_file, md_file,
                   exit_code, scanned, removed, undeleted, cleaned, reported,
                   skipped, yamlvars>>

\* a removal list that forgets the Markdown file
ToRemove_JsonOnly == IF json_file # file THEN {json_file} ELSE {}

\* lines 140-144
ToRemove ==
    (IF json_file # file THEN {json_file} ELSE {})
        \cup (IF md_file # None THEN {md_file} ELSE {})

\* lines 146-155: with keep_temp nothing is removed; otherwise every listed
\* path that exists is removed, unless os.remove raises for it (stuck), which
\* is caught
Cleanup ==
    /\ pc = "cleanup"
    /\ IF keep_temp
       THEN UNCHANGED <<disk, removed, undeleted, faults>>
       ELSE \E stuck \in SUBSET (ToRemove \cap disk) :
               /\ faults + Cardinality(stuck) <= MaxFaults
               /\ faults' = faults + Cardinality(stuck)
               /\ disk' = disk \ (ToRemove \ stuck)
               /\ removed' = removed \cup
                     {[path |-> p, by |-> i] : p \in (ToRemove \cap disk) \ stuck}
               /\ undeleted' = undeleted \cup {[path |-> p, by |-> i] : p \in stuck}
    /\ cleaned' = cleaned \cup {i}
    /\ pc' = "report"
    /\ UNCHANGED <<argv, disk0, keep_temp, input_files, i, json_file, md_file,
                   success, exit_code, scanned, wrote, docx, reported, skipped,
                   yamlvars>>

\* lines 157-158 and the loop's next iteration
Report ==
    /\ pc = "report"
    /\ reported' = IF ~success THEN reported \cup {i} ELSE reported
    /\ NextFile(i)
    /\ UNCHANGED <<argv, disk0, disk, keep_temp, input_files, json_file,
                   md_file, success, scanned, wrote, removed, undeleted, docx,
                   cleaned, faults, skipped, yamlvars>>

Next ==
    \/ Discover
    \/ YamlCheck
    \/ YamlConvert
    \/ MdPrepare
    \/ DocxConvert
    \/ Cleanup
    \/ Report

Spec == Init /\ [][Next]_vars

-----------------------------------------------------------------------------
(* convert_yaml_to_json(): the value tree and the JSON text.               *)
(* A character is its code point; a text is a sequence of code points.     *)
(* A value is a record: k is its Python type, and b, n, s, m hold the bool, *)
(* the int, the characters of the str and the (key, value) items of the    *)
(* dict.                                                                   *)

MaxStrLen == 1
MaxItems == 1

PyNone == [k |-> "null", b |-> FALSE, n |-> 0, s |-> <<>>, m |-> <<>>]
PyBool(x) == [k |-> "bool", b |-> x, n |-> 0, s |-> <<>>, m |-> <<>>]
PyInt(x) == [k |-> "int", b |-> FALSE, n |-> x, s |-> <<>>, m |-> <<>>]
PyStr(cs) == [k |-> "str", b |-> FALSE, n |-> 0, s |-> cs, m |-> <<>>]
PyDate == [k |-> "date", b |-> FALSE, n |-> 0, s |-> <<>>, m |-> <<>>]
PyDict(items) == [k |-> "dict", b |-> FALSE, n |-> 0, s |-> <<>>, m |-> items]

\* 'a', 'e' with acute accent, the double quote, the line feed
StrChars == {97, 233, 34, 10}

Strs == {PyStr(cs) : cs \in SeqsUpTo(StrChars, MaxStrLen)}

\* what yaml.safe_load yields for a scalar node: None, bool, int, str and
\* datetime.date (for a timestamp such as 2020-01-01)
Scalars == {PyNone, PyBool(TRUE), PyBool(FALSE), PyInt(12), PyDate} \cup Strs

Items == {[key |-> key, val |-> val] : key \in Scalars, val \in Scalars}

DistinctKeys(items) ==
    \A j, k \in 1..Len(items) : items[j].key = items[k].key => j = k

Dicts == {PyDict(items) : items \in {x \in SeqsUpTo(Items, MaxItems) : DistinctKeys(x)}}

Values == Scalars \cup Dicts

\* one hexadecimal digit, lower case
HexDigit(d) == IF d < 10 THEN 48 + d ELSE 87 + d

\* '\\u{0:04x}'.format(c)
UEscape(c) ==
    <<92, 117, HexDigit((c \div 4096) % 16), HexDigit((c \div 256) % 16),
      HexDigit((c \div 16) % 16), HexDigit(c % 16)>>

\* json.encoder.py_encode_basestring_ascii, one character (ensure_ascii=True)
EscapeChar_Ascii(c) ==
    CASE c = 34 -> <<92, 34>>
      [] c = 92 -> <<92, 92>>
      [] c = 10 -> <<92, 110>>
      [] c = 13 -> <<92, 114>>
      [] c = 9 -> <<92, 116>>
      [] c = 8 -> <<92, 98>>
      [] c = 12 -> <<92, 102>>
      [] (c < 32 /\ c \notin {8, 9, 10, 12, 13}) \/ c > 126 -> UEscape(c)
      [] OTHER -> <<c>>

\* json.encoder.py_encode_basestring, one character (ensure_ascii=False):
\* only the quote, the backslash and the control characters are escaped
EscapeChar(c) ==
    CASE c = 34 -> <<92, 34>>
      [] c = 92 -> <<92, 92>>
      [] c = 10 -> <<92, 110>>
      [] c = 13 -> <<92, 114>>
      [] c = 9 -> <<92, 116>>
      [] c = 8 -> <<92, 98>>
      [] c = 12 -> <<92, 102>>
      [] c < 32 /\ c \notin {8, 9, 10, 12, 13} -> UEscape(c)
      [] OTHER -> <<c>>

RECURSIVE EscapeAll(_)
EscapeAll(cs) ==
    IF cs = <<>> THEN <<>> ELSE EscapeChar(Head(cs)) \o EscapeAll(Tail(cs))

\* _encoder(s): the quoted string
EncodeStr(cs) == <<34>> \o EscapeAll(cs) \o <<34>>

\* int.__repr__
RECURSIVE Digits(_)
Digits(x) ==
    IF x < 0 THEN <<45>> \o Digits(-x)
    ELSE IF x < 10 THEN <<48 + x>>
    ELSE Digits(x \div 10) \o <<48 + (x % 10)>>

TextNull == <<110, 117, 108, 108>>
TextTrue == <<116, 114, 117, 101>>
TextFalse == <<102, 97, 108, 115, 101>>

\* _iterencode_dict: the text a key becomes; any other key type raises TypeError
KeyText(key) ==
    CASE key.k = "str" -> [text |-> key.s, ok |-> TRUE]
      [] key.k = "bool" -> [text |-> IF key.b THEN TextTrue ELSE TextFalse, ok |-> TRUE]
      [] key.k = "null" -> [text |-> TextNull, ok |-> TRUE]
      [] key.k = "int" -> [text |-> Digits(key.n), ok |-> TRUE]
      [] OTHER -> [text |-> <<>>, ok |-> FALSE]

\* '\n' + ' ' * (4 * level)
NewlineIndent(level) == <<10>> \o [j \in 1..(4 * level) |-> 32]

\* json.dump(data, dst, indent=4, ensure_ascii=False): the chunks written to
\* dst, and whether the encoder finished (ok) or raised TypeError after them
RECURSIVE Dump(_, _), DumpItems(_, _, _)
Dump(v, level) ==
    CASE v.k = "str" -> [text |-> EncodeStr(v.s), ok |-> TRUE]
      [] v.k = "null" -> [text |-> TextNull, ok |-> TRUE]
      [] v.k = "bool" -> [text |-> IF v.b THEN TextTrue ELSE TextFalse, ok |-> TRUE]
      [] v.k = "int" -> [text |-> Digits(v.n), ok |-> TRUE]
      [] v.k = "dict" ->
            IF v.m = <<>> THEN [text |-> <<123, 125>>, ok |-> TRUE]
            ELSE LET body == DumpItems(v.m, level + 1, TRUE)
                     open == <<123>> \o NewlineIndent(level + 1) \o body.text
                 IN IF body.ok
                    THEN [text |-> open \o NewlineIndent(level) \o <<125>>, ok |-> TRUE]
                    ELSE [text |-> open, ok |-> FALSE]
      [] OTHER -> [text |-> <<>>, ok |-> FALSE]

DumpItems(items, level, first) ==
    IF items = <<>> THEN [text |-> <<>>, ok |-> TRUE]
    ELSE LET kt == KeyText(Head(items).key)
         IN IF ~kt.ok THEN [text |-> <<>>, ok |-> FALSE]
            ELSE LET sep == IF first THEN <<>> ELSE <<44>> \o NewlineIndent(level)
                     dv == Dump(Head(items).val, level)
                     pre == sep \o EncodeStr(kt.text) \o <<58, 32>> \o dv.text
                 IN IF ~dv.ok THEN [text |-> pre, ok |-> FALSE]
                    ELSE LET rest == DumpItems(Tail(items), level, FALSE)
                         IN [text |-> pre \o rest.text, ok |-> rest.ok]

InitYaml ==
    /\ argv = <<FYaml>>
    /\ disk0 = {FYaml}
    /\ disk = disk0
    /\ keep_temp = FALSE
    /\ input_files = <<FYaml>>
    /\ i = 1
    /\ pc = "yaml_convert"
    /\ json_file = None
    /\ md_file = None
    /\ success = FALSE
    /\ exit_code = -1
    /\ scanned = FALSE
    /\ wrote = {}
    /\ removed = {}
    /\ undeleted = {}
    /\ docx = {}
    /\ cleaned = {}
    /\ reported = {}
    /\ skipped = {}
    /\ faults = 0
    /\ data = PyNone
    /\ artifact = <<>>
    /\ phase = "idle"

\* lines 20-21: yaml.safe_load returns the value tree of a valid document
SafeLoad ==
    /\ phase = "idle"
    /\ \E v \in Values : data' = v
    /\ phase' = "loaded"
    /\ UNCHANGED <<artifact, pipevars>>

\* lines 20-21, 29-31: the file cannot be read or is not valid YAML
SafeLoadFails ==
    /\ phase = "idle"
    /\ phase' = "load_failed"
    /\ UNCHANGED <<data, artifact, pipevars>>

\* lines 23-27, 29-31: the JSON file is opened and json.dump writes into it
JsonDump ==
    /\ phase = "loaded"
    /\ LET d == Dump(data, 0)
       IN /\ artifact' = d.text
          /\ phase' = IF d.ok THEN "written" ELSE "dump_failed"
    /\ disk' = disk \cup {JsonPathOf(file)}
    /\ wrote' = wrote \cup {[path |-> JsonPathOf(file), by |-> i]}
    /\ json_file' = IF Dump(data, 0).ok THEN JsonPathOf(file) ELSE None
    /\ UNCHANGED <<data, argv, disk0, keep_temp, input_files, i, pc, md_file,
                   success, exit_code, scanned, removed, undeleted, docx,
                   cleaned, reported, faults, skipped>>

NextYaml ==
    \/ SafeLoad
    \/ SafeLoadFails
    \/ JsonDump

SpecYaml == InitYaml /\ [][NextYaml]_vars

-----------------------------------------------------------------------------
(* Reading the artifact back: a JSON reader over the text, used to state   *)
(* the round trip.  Every Parse* operator yields [v, p]: the value read    *)
(* and the position after it.                                              *)

At(t, p) == IF p <= Len(t) THEN t[p] ELSE 0

RECURSIVE SkipWs(_, _)
SkipWs(t, p) == IF At(t, p) \in {32, 10} THEN SkipWs(t, p + 1) ELSE p

HexVal(c) == IF c >= 97 THEN c - 87 ELSE c - 48

RECURSIVE ParseChars(_, _, _)
ParseChars(t, p, acc) ==
    IF p > Len(t) \/ At(t, p) = 34 THEN [v |-> PyStr(acc), p |-> p + 1]
    ELSE IF At(t, p) = 92
    THEN LET e == At(t, p + 1)
         IN IF e = 117
            THEN ParseChars(t, p + 6,
                     Append(acc, HexVal(At(t, p + 2)) * 4096 + HexVal(At(t, p + 3)) * 256
                                 + HexVal(At(t, p + 4)) * 16 + HexVal(At(t, p + 5))))
            ELSE ParseChars(t, p + 2,
                     Append(acc, CASE e = 110 -> 10 [] e = 114 -> 13 [] e = 116 -> 9
                                   [] e = 98 -> 8 [] e = 102 -> 12 [] OTHER -> e))
    ELSE ParseChars(t, p + 1, Append(acc, At(t, p)))

RECURSIVE ParseDigits(_, _, _)
ParseDigits(t, p, acc) ==
    IF At(t, p) \in 48..57 THEN ParseDigits(t, p + 1, acc * 10 + (At(t, p) - 48))
    ELSE [v |-> PyInt(acc), p |-> p]

\* a dict keeps one value per key: a repeated key replaces the value
PutItem(items, key, val) ==
    IF \E j \in 1..Len(items) : items[j].key = key
    THEN [j \in 1..Len(items) |->
             IF items[j].key = key THEN [key |-> key, val |-> val] ELSE items[j]]
    ELSE Append(items, [key |-> key, val |-> val])

RECURSIVE ParseValue(_, _), ParseMembers(_, _, _)
ParseValue(t, p0) ==
    LET p == SkipWs(t, p0)
        c == At(t, p)
    IN CASE c = 34 -> ParseChars(t, p + 1, <<>>)
         [] c = 110 -> [v |-> PyNone, p |-> p + 4]
         [] c = 116 -> [v |-> PyBool(TRUE), p |-> p + 4]
         [] c = 102 -> [v |-> PyBool(FALSE), p |-> p + 5]
         [] c = 45 -> LET d == ParseDigits(t, p + 1, 0)
                      IN [v |-> PyInt(-(d.v.n)), p |-> d.p]
         [] c \in 48..57 -> ParseDigits(t, p, 0)
         [] c = 123 ->
               IF At(t, SkipWs(t, p + 1)) = 125
               THEN [v |-> PyDict(<<>>), p |-> SkipWs(t, p + 1) + 1]
               ELSE ParseMembers(t, p + 1, <<>>)
         [] OTHER -> [v |-> PyNone, p |-> Len(t) + 1]

ParseMembers(t, p0, acc) ==
    LET key == ParseChars(t, SkipWs(t, p0) + 1, <<>>)
        val == ParseValue(t, SkipWs(t, key.p) + 1)
        items == PutItem(acc, key.v, val.v)
        q == SkipWs(t, val.p)
    IN IF At(t, q) = 44 THEN ParseMembers(t, q + 1, items)
       ELSE [v |-> PyDict(items), p |-> q + 1]

\* json.load on the artifact
JsonLoad(t) == ParseValue(t, 1).v

\* every str of a value tree, keys included, as one text
RECURSIVE CharsOf(_), CharsOfItems(_)
CharsOf(v) ==
    CASE v.k = "str" -> v.s
      [] v.k = "dict" -> CharsOfItems(v.m)
      [] OTHER -> <<>>

CharsOfItems(items) ==
    IF items = <<>> THEN <<>>
    ELSE CharsOf(Head(items).key) \o CharsOf(Head(items).val) \o CharsOfItems(Tail(items))

Occurrences(c, t) == Cardinality({j \in 1..Len(t) : t[j] = c})

-----------------------------------------------------------------------------
(* Properties of main() *)

\* the driver is working on input_files[i]
Processing ==
    pc \in {"yaml_check", "yaml_convert", "md_prepare", "docx_convert", "cleanup", "report"}

\* the intermediate files written so far: <input>.json and <json>.md
Artifacts == {w \in wrote : w.path[Len(w.path)] \in {".json", ".md"}}

\* the artifact paths on disk that the file being processed did not write
ForeignArtifacts ==
    {w.path : w \in {x \in Artifacts : x.path \in disk /\ x.by # i}}
        \ {w.path : w \in {x \in wrote : x.by = i}}

\* the artifact paths with the given suffix that loop position k has written
MadeBy(k, suffix) ==
    {w.path : w \in {x \in Artifacts : x.by = k /\ x.path[Len(x.path)] = suffix}}

\* C1: after main() has finished, with --keep-temp every intermediate artifact
\* created for a file exists, and without it none exists, whichever of the YAML
\* conversion, the Markdown preparation and the DOCX conversion failed (stated
\* for the runs in which no os.remove fails).
C1_TempFilesPolicy ==
    (pc = "done" /\ undeleted = {}) =>
        \A w \in Artifacts : (w.path \in disk) <=> keep_temp

\* C1, the half that the code keeps: with --keep-temp every artifact is there
C1_KeptHalf ==
    (pc = "done" /\ keep_temp) => \A w \in Artifacts : w.path \in disk

\* C2: a file that was there at the start and met no injected failure has its
\* DOCX conversion attempted, whatever happens to the other files; the files
\* are taken in list order; a run over a non-empty list ends with status 0.
ValidInput(k) ==
    /\ input_files[k] \in disk0
    /\ ~\E s \in skipped : s.by = k /\ s.why \in {"nofile", "partial"}

C2_PartialFailureIsolation ==
    /\ \A d \in docx : d.by <= i
    /\ \A s \in skipped : s.by <= i
    /\ pc = "exit" => input_files = <<>>
    /\ pc = "done" =>
          /\ exit_code = 0
          /\ i = Len(input_files)
          /\ \A k \in 1..Len(input_files) :
                ValidInput(k) => \E d \in docx : d.by = k

\* C2 without the inputs that the run itself removed before their turn
C2_ExitAndOrder ==
    /\ \A d \in docx : d.by <= i
    /\ pc = "exit" => input_files = <<>>
    /\ pc = "done" =>
          /\ exit_code = 0
          /\ i = Len(input_files)
          /\ \A k \in 1..Len(input_files) :
                (\A s \in skipped : s.by # k) => \E d \in docx : d.by = k
\* the names of the working directory with a data extension, in any case
DataNames(files) ==
    {p \in files : /\ p[1] = ""
                   /\ Len(p) >= 3
                   /\ p[Len(p)] \in {".json", ".JSON", ".yaml", ".YAML", ".yml", ".YML"}}

\* the position in argv of the j-th token that is not --keep-temp
ArgPos(j) ==
    CHOOSE k \in 1..Len(argv) :
        /\ argv[k] # KeepTempTok
        /\ Cardinality({m \in 1..k : argv[m] # KeepTempTok}) = j

NoPathGiven == \A k \in 1..Len(argv) : argv[k] = KeepTempTok

\* C3: with no path among the arguments and no .json/.yaml/.yml name in the
\* working directory, main() exits with status 1 and has written and deleted
\* nothing: no conversion, Markdown, DOCX or cleanup step was entered.
C3_EmptyExit ==
    (pc # "start" /\ NoPathGiven /\ DataNames(disk0) = {}) =>
        /\ pc = "exit"
        /\ exit_code = 1
        /\ wrote = {} /\ removed = {} /\ undeleted = {} /\ docx = {}
        /\ cleaned = {} /\ skipped = {} /\ reported = {}
        /\ disk = disk0

C3_Witness ==
    /\ pc = "exit"
    /\ exit_code = 1
    /\ Len(argv) = 2
    /\ NoPathGiven
    /\ FText \in disk0

\* C4: when some argument is not --keep-temp the work list is exactly those
\* arguments in the given order, unfiltered, and the directory is not scanned;
\* otherwise the work list is the names of the working directory that end in
\* .json, .yaml or .yml in any case, each once.
C4_Discovery ==
    pc # "start" =>
        /\ keep_temp <=> (\E k \in 1..Len(argv) : argv[k] = KeepTempTok)
        /\ IF ~NoPathGiven
           THEN /\ ~scanned
                /\ Len(input_files) =
                      Cardinality({k \in 1..Len(argv) : argv[k] # KeepTempTok})
                /\ \A j \in 1..Len(input_files) : input_files[j] = argv[ArgPos(j)]
           ELSE /\ scanned
                /\ {input_files[j] : j \in 1..Len(input_files)} = DataNames(disk0)
                /\ Len(input_files) = Cardinality(DataNames(disk0))

C4_Witness ==
    /\ pc = "yaml_check"
    /\ Len(argv) = 3
    /\ argv[2] = KeepTempTok
    /\ input_files = <<FDirTxt, FYamlJson>>
    /\ keep_temp
    /\ ~scanned

C4_WitnessScan ==
    /\ pc = "yaml_check"
    /\ scanned
    /\ keep_temp
    /\ Len(input_files) = 2

\* C5: every output path handed to the converter is the name of the input
\* without its directory, with ".json" added when the input was YAML, plus
\* ".docx": only the final ".md" of the Markdown name is gone, and the file
\* lands in the working directory.
WasYaml(f) ==
    /\ Len(f) >= 3
    /\ ~(Len(f) = 3 /\ f[2] = "")
    /\ f[Len(f)] \in {".yaml", ".YAML", ".yml", ".YML"}

C5_DocxNaming ==
    \A d \in docx :
        LET f == input_files[d.by]
            name == <<"">> \o SubSeq(f, 2, Len(f))
        IN d.out = name \o (IF WasYaml(f) THEN <<".json">> ELSE <<>>) \o <<".docx">>

C5_Witness ==
    /\ [by |-> 1, out |-> <<"", "b", ".yml", ".json", ".docx">>] \in docx
    /\ [by |-> 2, out |-> <<"", "c", ".txt", ".docx">>] \in docx
    /\ input_files = <<FDirYml, FDirTxt>>

\* C8: the step after the DOCX conversion is the cleanup, whether or not the
\* conversion succeeded, and cleanup is entered from nowhere else; the failure
\* message of a file is printed only after its cleanup; after it the driver
\* takes the next file; the driver leaves a file without cleanup only from a
\* failed YAML conversion or a failed Markdown preparation.
C8_Step ==
    /\ pc = "docx_convert" => pc' = "cleanup" /\ i' = i
    /\ pc' = "cleanup" => pc = "docx_convert" /\ md_file # None
    /\ pc = "cleanup" => pc' = "report" /\ i' = i /\ i \in cleaned'
    /\ reported' # reported =>
          /\ pc = "report" /\ ~success /\ i \in cleaned
          /\ reported' = reported \cup {i}
    /\ pc = "report" => (i' = i + 1 /\ pc' = "yaml_check") \/ (pc' = "done" /\ i = Len(input_files))
    /\ (Processing /\ (i' # i \/ pc' = "done") /\ i \notin cleaned) =>
          /\ pc \in {"yaml_convert", "md_prepare"}
          /\ \E s \in skipped' : s.by = i /\ s.at = pc

\* C8: every step of the driver keeps the ordering of C8_Step
C8_DriverOrdering == [][C8_Step]_vars

C8_Witness ==
    /\ pc = "yaml_check"
    /\ i = 2
    /\ 1 \in reported
    /\ 1 \in cleaned
    /\ \E r \in removed : r.by = 1

\* C9: at most one JSON artifact and one Markdown artifact exist per input
\* file, and no artifact created for one input file exists while another
\* input file is being processed.
C9_NoOverlap ==
    /\ \A k \in 1..Len(input_files) :
          /\ Cardinality(MadeBy(k, ".json")) <= 1
          /\ Cardinality(MadeBy(k, ".md")) <= 1
    /\ Processing => ForeignArtifacts = {}

\* C9 as the code has it: an artifact of another input file is still there
\* only under --keep-temp, or when its deletion failed, or when a file that
\* made it was skipped after a failed YAML conversion or Markdown preparation.
C9_NoOverlapUnlessKept ==
    /\ \A k \in 1..Len(input_files) :
          /\ Cardinality(MadeBy(k, ".json")) <= 1
          /\ Cardinality(MadeBy(k, ".md")) <= 1
    /\ (Processing /\ ~keep_temp) =>
          \A p \in ForeignArtifacts :
             \/ \E u \in undeleted : u.path = p
             \/ \E w \in wrote : w.path = p /\ \E s \in skipped : s.by = w.by

C9_Witness ==
    /\ pc = "docx_convert"
    /\ i = 2
    /\ ~keep_temp
    /\ skipped = {}
    /\ undeleted = {}
    /\ Cardinality({r \in removed : r.by = 1}) = 2
    /\ \A r \in removed : r.path \notin disk

\* C10: no entry of the work list is ever written or deleted; the run writes
\* only <input>.json, <json>.md and the .docx output, and deletes only
\* artifacts that the file being processed created.
C10_InputsIntact ==
    /\ \A w \in wrote \cup removed :
          \A k \in 1..Len(input_files) : w.path # input_files[k]
    /\ \A w \in wrote : w.path[Len(w.path)] \in {".json", ".md", ".docx"}
    /\ \A r \in removed : r \in wrote

\* C10, the half that the code keeps
C10_OnlyOwnArtifacts ==
    /\ \A w \in wrote : w.path[Len(w.path)] \in {".json", ".md", ".docx"}
    /\ \A r \in removed : r \in Artifacts
\* C9 in the runs where nothing fails
C9_NoOverlapFaultFree == (skipped = {} /\ undeleted = {} /\ faults = 0) => C9_NoOverlap

-----------------------------------------------------------------------------
(* Properties of convert_yaml_to_json() *)

HasNonAscii(t) == \E j \in 1..Len(t) : t[j] > 127

\* C6: the JSON artifact of a successful conversion is ASCII only.
C6_AsciiOnly ==
    phase = "written" => \A j \in 1..Len(artifact) : artifact[j] < 128

\* C6 as the code has it (ensure_ascii=False): every non-ASCII character of
\* the value tree is in the artifact as the character itself, as often as it
\* is in the tree, so none of them became an escape sequence.
C6_NonAsciiVerbatim ==
    phase = "written" =>
        \A c \in {x \in StrChars : x > 127} :
            Occurrences(c, artifact) = Occurrences(c, CharsOf(data))

C6_Witness ==
    /\ phase = "written"
    /\ data.k = "dict"
    /\ HasNonAscii(CharsOf(data))
    /\ HasNonAscii(artifact)

\* C7: every valid YAML document yields a JSON artifact, and reading the
\* artifact back gives the value tree that the loader produced.
C7_RoundTrip ==
    /\ phase # "dump_failed"
    /\ phase = "written" => JsonLoad(artifact) = data

\* C7 for the value trees JSON can hold: str keys, and no date
JsonNative(v) ==
    /\ v.k # "date"
    /\ \A j \in 1..Len(v.m) : v.m[j].key.k = "str" /\ v.m[j].val.k # "date"

C7_RoundTripNative ==
    JsonNative(data) =>
        /\ phase # "dump_failed"
        /\ phase = "written" => JsonLoad(artifact) = data

====
